---- MODULE Spec2Model ----
(***************************************************************************)
(* Dhaja Allocation Tool (app.py): find_combination and the allocation     *)
(* loop of process_allocation.                                             *)
(*                                                                         *)
(* A spreadsheet cell that may be empty is a sequence of length 0 (None)   *)
(* or 1 (<<v>>).  The list returned by find_combination is a sequence of   *)
(* booking records; Python's None result is the empty sequence, which is   *)
(* what the driver's truth test `if match:` distinguishes.                 *)
(***************************************************************************)
EXTENDS Integers, Sequences, FiniteSets, TLC

VARIABLES
    bookings,          \* df1.to_dict('records'): the list mark_assigned mutates
    df1,               \* the tracking columns of the Book1 frame
    xls2,              \* Book2: the number of rows of each sheet, in sheet order
    processed_sheets,  \* the sheets already put into processed_sheets
    df2,               \* the rows of the sheet being iterated
    idx,               \* number of rows of df2 the row loop has gone through
    pc,                \* "sheets" | "rows" | "done"
    target,            \* local of the row loop (line 109)
    unassigned,        \* local of the row loop (line 114)
    match              \* local of the row loop (line 117)

vars == <<bookings, df1, xls2, processed_sheets, df2, idx, pc,
          target, unassigned, match>>

----------------------------------------------------------------------------
(* Bounds of the model *)

NumBookings == 3      \* bookings of a run over several slots
MaxPool == 4          \* most bookings of a run over a single slot
MaxPerson == 3        \* largest headcount in Book1
MaxTarget == 3        \* largest 'test' value in Book2
SheetRows == <<2, 1>> \* rows of the sheets of a run over several slots

None == << >>

----------------------------------------------------------------------------
(* Cells as read from the spreadsheets, and their coercion *)

RawCells(lo, hi) ==
    {[numeric |-> TRUE, val |-> v] : v \in lo..hi}
        \cup {[numeric |-> FALSE, val |-> 0]}

\* pd.to_numeric(col, errors='coerce').fillna(0).astype(int)
to_numeric(cell) == IF cell.numeric THEN cell.val ELSE 0

\* 'Unique Id' of the booking in row i of Book1, 'New Dhaja No.' of row r of
\* sheet s of Book2: distinct values
UniqueId(i) == 100 + i
DhajaNo(s, r) == 10 * s + r

----------------------------------------------------------------------------
(* find_combination *)

RECURSIVE SeqMax(_)
SeqMax(s) ==
    IF Len(s) = 1 THEN s[1]
    ELSE LET m == SeqMax(Tail(s)) IN IF s[1] >= m THEN s[1] ELSE m

\* the underfills tried before the overfill
targets_to_try_underfill_first(tgt) ==
    <<tgt>> \o
        (IF tgt > 1 THEN [i \in 1..(tgt - 1) |-> tgt - i] ELSE << >>) \o
        <<tgt + 1>>

\* range(target - 1, 1, -1): the underfill to 1 is never tried
targets_to_try_stop_at_2(tgt) ==
    <<tgt, tgt + 1>> \o
        (IF tgt > 2 THEN [i \in 1..(tgt - 2) |-> tgt - i] ELSE << >>)

\* range(target - 1, -1, -1): the list runs down to 0
targets_to_try_to_zero(tgt) ==
    <<tgt, tgt + 1>> \o [i \in 1..tgt |-> tgt - i]

\* [target, target + 1] + list(range(target - 1, 0, -1))
targets_to_try(tgt) ==
    <<tgt, tgt + 1>> \o
        (IF tgt > 1 THEN [i \in 1..(tgt - 1) |-> tgt - i] ELSE << >>)

\* the filter written with < instead of <=
candidates_strict(tgt, available_bookings) ==
    LET max_target == SeqMax(targets_to_try(tgt))
    IN  SelectSeq(available_bookings, LAMBDA b : b.No_of_Person < max_target)

\* [b for b in available_bookings if b['No. of Person'] <= max_target]
candidates(tgt, available_bookings) ==
    LET max_target == SeqMax(targets_to_try(tgt))
    IN  SelectSeq(available_bookings, LAMBDA b : b.No_of_Person <= max_target)

\* for b in candidates: if b['No. of Person'] == t: return [b]
single_match(cands, t) ==
    LET hits == {i \in 1..Len(cands) : cands[i].No_of_Person = t}
    IN  IF hits = {} THEN None
        ELSE <<cands[CHOOSE i \in hits : \A j \in hits : i <= j]>>

\* [b for b in candidates if b['No. of Person'] < t]
current_candidates(cands, t) ==
    SelectSeq(cands, LAMBDA b : b.No_of_Person < t)

\* the last pair that sums to t instead of the first
pair_match_last(cur, t) ==
    LET hits == {p \in (1..Len(cur)) \X (1..Len(cur)) :
                    /\ p[1] < p[2]
                    /\ cur[p[1]].No_of_Person + cur[p[2]].No_of_Person = t}
    IN  IF hits = {} THEN None
        ELSE LET p == CHOOSE p \in hits : \A q \in hits :
                            \/ p[1] > q[1]
                            \/ (p[1] = q[1] /\ p[2] >= q[2])
             IN  <<cur[p[1]], cur[p[2]]>>

\* for pair in itertools.combinations(current_candidates, 2): the first pair,
\* in the lexicographic order of positions, whose headcounts sum to t
pair_match(cur, t) ==
    LET hits == {p \in (1..Len(cur)) \X (1..Len(cur)) :
                    /\ p[1] < p[2]
                    /\ cur[p[1]].No_of_Person + cur[p[2]].No_of_Person = t}
    IN  IF hits = {} THEN None
        ELSE LET p == CHOOSE p \in hits : \A q \in hits :
                            \/ p[1] < q[1]
                            \/ (p[1] = q[1] /\ p[2] <= q[2])
             IN  <<cur[p[1]], cur[p[2]]>>

\* the pairs searched before the single bookings
try_target_pair_first(cands, t) ==
    IF pair_match(current_candidates(cands, t), t) # None
    THEN pair_match(current_candidates(cands, t), t)
    ELSE single_match(cands, t)

\* the body of `for t in targets_to_try`: a returned list, or None to go on
try_target(cands, t) ==
    IF single_match(cands, t) # None THEN single_match(cands, t)
    ELSE pair_match(current_candidates(cands, t), t)

RECURSIVE search(_, _, _)
search(cands, tts, k) ==
    IF k > Len(tts) THEN None
    ELSE IF try_target(cands, tts[k]) # None THEN try_target(cands, tts[k])
    ELSE search(cands, tts, k + 1)

find_combination(tgt, available_bookings) ==
    search(candidates(tgt, available_bookings), targets_to_try(tgt), 1)

----------------------------------------------------------------------------
(* process_allocation *)

\* lines 43-49 and 60-61: Book1 with coerced headcounts and the tracking columns
LoadBook1(raw) ==
    [i \in 1..Len(raw) |->
        [original_index |-> i - 1,
         Unique_Id |-> UniqueId(i),
         No_of_Person |-> to_numeric(raw[i]),
         Allocation_Status |-> "Not Allocated",
         Allotted_Dhaja_No |-> None]]

Tracking(bks) ==
    [i \in 1..Len(bks) |->
        [Allocation_Status |-> bks[i].Allocation_Status,
         Allotted_Dhaja_No |-> bks[i].Allotted_Dhaja_No]]

\* the index taken for a 1-based position: the booking after the matched one
\* is marked
mark_assigned_position(bks, booking_idx, dhaja_no) ==
    LET hits == {i \in 1..Len(bks) : bks[i].original_index = booking_idx + 1}
    IN  IF hits = {} THEN bks
        ELSE LET i == CHOOSE i \in hits : \A j \in hits : i <= j
             IN  [bks EXCEPT ![i] = [@ EXCEPT
                        !.Allocation_Status = "Allocated",
                        !.Allotted_Dhaja_No = <<dhaja_no>>]]

\* the first booking of the list with that original_index is marked
mark_assigned(bks, booking_idx, dhaja_no) ==
    LET hits == {i \in 1..Len(bks) : bks[i].original_index = booking_idx}
    IN  IF hits = {} THEN bks
        ELSE LET i == CHOOSE i \in hits : \A j \in hits : i <= j
             IN  [bks EXCEPT ![i] = [@ EXCEPT
                        !.Allocation_Status = "Allocated",
                        !.Allotted_Dhaja_No = <<dhaja_no>>]]

\* the pool taken without the status filter
Unassigned_all(bks) == bks

\* [b for b in bookings if b['Allocation Status'] == "Not Allocated"]
Unassigned(bks) ==
    SelectSeq(bks, LAMBDA b : b.Allocation_Status = "Not Allocated")

\* only the first booking of the match is marked
MarkAll_first_only(bks, m, k, dhaja_no) ==
    IF Len(m) = 0 THEN bks
    ELSE mark_assigned(bks, m[1].original_index, dhaja_no)

\* for i, booking in enumerate(match): mark_assigned(...)
RECURSIVE MarkAll(_, _, _, _)
MarkAll(bks, m, k, dhaja_no) ==
    IF k > Len(m) THEN bks
    ELSE MarkAll(mark_assigned(bks, m[k].original_index, dhaja_no),
                 m, k + 1, dhaja_no)

\* df2.at[idx, 'Booking i Id'], df2.at[idx, 'Booking i Persons'] for the
\* bookings of the match in order, and df2.at[idx, 'BOOKING'] = "Allocated"
FillRow(row, m) ==
    [row EXCEPT
        !.Booking_1_Id = <<m[1].Unique_Id>>,
        !.Booking_1_Persons = <<m[1].No_of_Person>>,
        !.Booking_2_Id = IF Len(m) >= 2 THEN <<m[2].Unique_Id>> ELSE @,
        !.Booking_2_Persons = IF Len(m) >= 2 THEN <<m[2].No_of_Person>> ELSE @,
        !.BOOKING = <<"Allocated">>]

\* the dictionaries of a list are the dictionaries of `bookings`: what
\* mark_assigned writes is seen through every list that holds them
Aliased(list, bks) ==
    [k \in 1..Len(list) |-> bks[list[k].original_index + 1]]

BookingCells == {None, <<"Allocated">>}

\* the state when the sheet loop is entered (line 78): n bookings loaded,
\* Book2 of the given shape, nothing processed
InitRun(n, lo, shape) ==
    \E raw \in [1..n -> RawCells(lo, MaxPerson)] :
        /\ bookings = LoadBook1(raw)
        /\ df1 = Tracking(LoadBook1(raw))
        /\ xls2 = shape
        /\ processed_sheets = << >>
        /\ df2 = << >>
        /\ idx = 0
        /\ pc = "sheets"
        /\ target = 0
        /\ unassigned = << >>
        /\ match = None

\* The inputs: a run over the sheets SheetRows with NumBookings bookings of
\* headcount 0..MaxPerson, or a run over one slot with up to MaxPool bookings
\* of headcount -1..MaxPerson (astype(int) keeps a negative number).  A
\* non-numeric headcount is among the cells of both.
Init ==
    \/ InitRun(NumBookings, 0, SheetRows)
    \/ \E n \in 0..MaxPool : InitRun(n, -1, <<1>>)

\* lines 80-83: a sheet without a 'test' column is passed through as read
SkipSheet ==
    /\ pc = "sheets"
    /\ Len(processed_sheets) < Len(xls2)
    /\ LET s == Len(processed_sheets) + 1
           n == xls2[s]
       IN  \E booking \in [1..n -> BookingCells] :
              processed_sheets' = Append(processed_sheets,
                  [r \in 1..n |->
                      [test |-> None,
                       New_Dhaja_No |-> DhajaNo(s, r),
                       Booking_1_Id |-> None, Booking_1_Persons |-> None,
                       Booking_2_Id |-> None, Booking_2_Persons |-> None,
                       BOOKING |-> booking[r]]])
    /\ UNCHANGED <<bookings, df1, xls2, df2, idx, pc, target, unassigned, match>>

\* lines 85-102: 'test' coerced, the Booking columns created empty, the
\* BOOKING column kept when the sheet has one
BeginSheet ==
    /\ pc = "sheets"
    /\ Len(processed_sheets) < Len(xls2)
    /\ LET s == Len(processed_sheets) + 1
           n == xls2[s]
       IN  \E test \in [1..n -> RawCells(-1, MaxTarget)],
              booking \in [1..n -> BookingCells] :
              df2' = [r \in 1..n |->
                        [test |-> <<to_numeric(test[r])>>,
                         New_Dhaja_No |-> DhajaNo(s, r),
                         Booking_1_Id |-> None, Booking_1_Persons |-> None,
                         Booking_2_Id |-> None, Booking_2_Persons |-> None,
                         BOOKING |-> booking[r]]]
    /\ idx' = 0
    /\ pc' = "rows"
    /\ UNCHANGED <<bookings, df1, xls2, processed_sheets, target, unassigned, match>>

\* the test written with < instead of <=
Skipped_negative(tgt) == tgt < 0

\* line 110: if target <= 0: continue
Skipped(tgt) == tgt <= 0

\* lines 109-111
SkipRow ==
    /\ pc = "rows"
    /\ idx < Len(df2)
    /\ Skipped(df2[idx + 1].test[1])
    /\ target' = df2[idx + 1].test[1]
    /\ idx' = idx + 1
    /\ UNCHANGED <<bookings, df1, xls2, processed_sheets, df2, pc, unassigned, match>>

\* lines 109-147 when find_combination returns a list
AllocateRow ==
    /\ pc = "rows"
    /\ idx < Len(df2)
    /\ ~Skipped(df2[idx + 1].test[1])
    /\ LET row == df2[idx + 1]
           pool == Unassigned(bookings)
           m == find_combination(row.test[1], pool)
           marked == MarkAll(bookings, m, 1, row.New_Dhaja_No)
       IN  /\ m # None
           /\ target' = row.test[1]
           /\ bookings' = marked
           /\ unassigned' = Aliased(pool, marked)
           /\ match' = Aliased(m, marked)
           /\ df2' = [df2 EXCEPT ![idx + 1] = FillRow(row, m)]
    /\ idx' = idx + 1
    /\ UNCHANGED <<df1, xls2, processed_sheets, pc>>

\* lines 109-119 when find_combination returns None
LeaveRow ==
    /\ pc = "rows"
    /\ idx < Len(df2)
    /\ ~Skipped(df2[idx + 1].test[1])
    /\ LET row == df2[idx + 1]
           pool == Unassigned(bookings)
           m == find_combination(row.test[1], pool)
       IN  /\ m = None
           /\ target' = row.test[1]
           /\ unassigned' = pool
           /\ match' = m
    /\ idx' = idx + 1
    /\ UNCHANGED <<bookings, df1, xls2, processed_sheets, df2, pc>>

\* line 149
EndSheet ==
    /\ pc = "rows"
    /\ idx = Len(df2)
    /\ processed_sheets' = Append(processed_sheets, df2)
    /\ pc' = "sheets"
    /\ UNCHANGED <<bookings, df1, xls2, df2, idx, target, unassigned, match>>

\* lines 152-162
Finish ==
    /\ pc = "sheets"
    /\ Len(processed_sheets) = Len(xls2)
    /\ df1' = Tracking(bookings)
    /\ pc' = "done"
    /\ UNCHANGED <<bookings, xls2, processed_sheets, df2, idx, target, unassigned, match>>

Next ==
    \/ SkipSheet
    \/ BeginSheet
    \/ SkipRow
    \/ AllocateRow
    \/ LeaveRow
    \/ EndSheet
    \/ Finish

Spec == Init /\ [][Next]_vars

----------------------------------------------------------------------------
(* The slots of Book2 and what a slot refers to *)

RECURSIVE Flatten(_)
Flatten(ss) == IF Len(ss) = 0 THEN << >> ELSE ss[1] \o Flatten(Tail(ss))

\* every row read so far, in processing order: the finished sheets, then the
\* sheet being iterated
Slots == Flatten(processed_sheets) \o (IF pc = "rows" THEN df2 ELSE << >>)

RefCell(row, n) == IF n = 1 THEN row.Booking_1_Id ELSE row.Booking_2_Id
Refs(row) == row.Booking_1_Id \o row.Booking_2_Id
RefPersons(row) == row.Booking_1_Persons \o row.Booking_2_Persons
Filled(row) == row.BOOKING = <<"Allocated">>

HeadcountOf(id) ==
    bookings[CHOOSE i \in 1..Len(bookings) : bookings[i].Unique_Id = id].No_of_Person

RECURSIVE SumHeadcounts(_)
SumHeadcounts(ids) ==
    IF Len(ids) = 0 THEN 0 ELSE HeadcountOf(ids[1]) + SumHeadcounts(Tail(ids))

RECURSIVE SumPersons(_)
SumPersons(list) ==
    IF Len(list) = 0 THEN 0 ELSE list[1].No_of_Person + SumPersons(Tail(list))

NonNegative(list) == \A k \in 1..Len(list) : list[k].No_of_Person >= 0

\* some single booking of the list, or some two distinct ones, sum to v
Reaches(list, v) ==
    \/ \E i \in 1..Len(list) : list[i].No_of_Person = v
    \/ \E i, j \in 1..Len(list) :
          i # j /\ list[i].No_of_Person + list[j].No_of_Person = v

\* T, T+1, T-1, T-2, ..., 1
PreferenceOrder(T) ==
    [k \in 1..(T + 1) |-> IF k = 1 THEN T ELSE IF k = 2 THEN T + 1 ELSE T + 2 - k]

\* the row loop has just gone through row idx of df2, and searched for it
Fresh == pc = "rows" /\ idx >= 1 /\ target > 0

\* this step takes the row loop through row idx + 1 of df2
RowStep == pc = "rows" /\ idx' = idx + 1

----------------------------------------------------------------------------
(* C1: with unique booking ids, in every state of a run each booking id is
   in the Booking 1 Id / Booking 2 Id cells of at most one slot, and never
   twice in the same slot. *)
SingleUse ==
    LET slots == Slots
    IN  \A i \in 1..Len(bookings) :
            Cardinality({c \in (1..Len(slots)) \X (1..2) :
                RefCell(slots[c[1]], c[2]) = <<bookings[i].Unique_Id>>}) <= 1

W_SingleUse ==
    \E k1, k2 \in 1..Len(Slots) :
        k1 < k2 /\ Len(Refs(Slots[k1])) = 2 /\ Len(Refs(Slots[k2])) >= 1

(* C2: when a slot with target T > 0 is given matched bookings, and the
   bookings Not Allocated just before (P) have non-negative headcounts, the
   headcounts of the matched bookings sum to the first value of
   T, T+1, T-1, ..., 1 that one booking or two distinct bookings of P give. *)
SumCorrect ==
    [][(RowStep /\ Refs(df2'[idx']) # None) =>
        LET T == df2[idx'].test[1]
            P == SelectSeq(bookings,
                    LAMBDA b : b.Allocation_Status = "Not Allocated")
            sum == SumHeadcounts(Refs(df2'[idx']))
        IN  /\ T > 0
            /\ NonNegative(P) =>
                 \E k \in 1..(T + 1) :
                    /\ PreferenceOrder(T)[k] = sum
                    /\ Reaches(P, sum)
                    /\ \A j \in 1..(k - 1) : ~Reaches(P, PreferenceOrder(T)[j])
      ]_vars

W_SumCorrect ==
    /\ Fresh
    /\ Len(match) = 2
    /\ NonNegative(unassigned)
    /\ Len(unassigned) >= 3
    /\ SumPersons(match) = target - 1

(* C3: a pair is returned only when no single booking of the pool has the
   headcount the pair sums to. *)
SingleBeforePair ==
    (target > 0 /\ Len(match) = 2) =>
        \A k \in 1..Len(unassigned) :
            unassigned[k].No_of_Person # SumPersons(match)

W_SingleBeforePair ==
    /\ target > 0
    /\ Len(match) = 1
    /\ \E i, j \in 1..Len(unassigned) :
          /\ i < j
          /\ unassigned[i].No_of_Person >= 1
          /\ unassigned[j].No_of_Person >= 1
          /\ unassigned[i].No_of_Person + unassigned[j].No_of_Person
                = match[1].No_of_Person

(* C4: for a target > 0 and a pool of non-negative headcounts the search
   returns None exactly when no booking and no two distinct bookings of the
   pool sum to a value of 1..target+1; on None the step leaves the slot's row
   as it was, with no matched reference, and changes no booking. *)
NoMatchCondition ==
    [][(RowStep /\ target' > 0) =>
        /\ NonNegative(unassigned') =>
             ((match' = None) <=>
                 ~\E v \in 1..(target' + 1) : Reaches(unassigned', v))
        /\ (match' = None) =>
             /\ bookings' = bookings
             /\ df2' = df2
             /\ Refs(df2'[idx']) = None
      ]_vars

W_NoMatchCondition ==
    /\ Fresh
    /\ match = None
    /\ NonNegative(unassigned)
    /\ \E k \in 1..Len(unassigned) : unassigned[k].No_of_Person > target + 1
    /\ \E k \in 1..Len(unassigned) : unassigned[k].No_of_Person = 0
    /\ ~Filled(df2[idx])

(* C5: an Allocated booking keeps its status and its allotted slot in every
   later step and is in no later pool; a slot's matched references, once
   written, are not changed by a later step. *)
Irrevocable ==
    [][/\ Len(bookings') = Len(bookings)
       /\ \A i \in 1..Len(bookings) :
            bookings[i].Allocation_Status = "Allocated" =>
                /\ bookings'[i] = bookings[i]
                /\ (RowStep /\ target' > 0) =>
                     \A k \in 1..Len(unassigned') :
                        unassigned'[k].original_index # bookings[i].original_index
       /\ LET before == Slots
              after == Slots'
          IN  \A k \in 1..Len(before) :
                 Refs(before[k]) # None =>
                     /\ k <= Len(after)
                     /\ after[k] = before[k]
      ]_vars

W_Irrevocable ==
    /\ Fresh
    /\ \A k \in 1..Len(unassigned) : unassigned[k].No_of_Person # target
    /\ SumPersons(match) # target
    /\ \E i \in 1..Len(bookings) :
          /\ bookings[i].No_of_Person = target
          /\ bookings[i].Allocation_Status = "Allocated"
          /\ bookings[i].Allotted_Dhaja_No # <<df2[idx].New_Dhaja_No>>

(* C6: a booking of headcount 0 is never in what the search returns, and in
   every state it is Not Allocated with no allotted slot. *)
ZeroNeverConsumed ==
    /\ \A k \in 1..Len(match) : match[k].No_of_Person # 0
    /\ \A i \in 1..Len(bookings) :
          bookings[i].No_of_Person = 0 =>
              /\ bookings[i].Allocation_Status = "Not Allocated"
              /\ bookings[i].Allotted_Dhaja_No = None

W_ZeroNeverConsumed ==
    /\ Fresh
    /\ match = None
    /\ Len(unassigned) >= 2
    /\ \A k \in 1..Len(unassigned) : unassigned[k].No_of_Person = 0

(* C7 as amended: going through a slot whose target is <= 0 does not search,
   changes no booking and leaves the slot's row as read, with no matched
   reference and the fill status of its BOOKING cell; no later step changes
   the row. *)
SkippedUntouched ==
    /\ [][(RowStep /\ df2[idx'].test[1] <= 0) =>
            /\ unassigned' = unassigned
            /\ match' = match
            /\ bookings' = bookings
            /\ df2' = df2]_vars
    /\ [][LET before == Slots
              after == Slots'
          IN  \A k \in 1..Len(before) :
                 (before[k].test # None /\ before[k].test[1] <= 0) =>
                     /\ k <= Len(after)
                     /\ after[k] = before[k]]_vars
    /\ [](LET slots == Slots
          IN  \A k \in 1..Len(slots) :
                 (slots[k].test # None /\ slots[k].test[1] <= 0) =>
                     Refs(slots[k]) = None)

W_SkippedUntouched ==
    /\ pc = "rows"
    /\ idx >= 1
    /\ target <= 0
    /\ Filled(df2[idx])
    /\ \E i \in 1..Len(bookings) :
          bookings[i].Allocation_Status = "Not Allocated"
              /\ bookings[i].No_of_Person = 1

(* C7 as stated: going through a slot whose target is <= 0 does not search,
   changes no booking and leaves the slot with no matched reference, and the
   slot is Unfilled at the end of every run. *)
SkippedUnfilled ==
    /\ [][(RowStep /\ df2[idx'].test[1] <= 0) =>
            /\ unassigned' = unassigned
            /\ match' = match
            /\ bookings' = bookings
            /\ Refs(df2'[idx']) = None]_vars
    /\ [](pc = "done" =>
            LET slots == Slots
            IN  \A k \in 1..Len(slots) :
                   (slots[k].test # None /\ slots[k].test[1] <= 0) =>
                       (Refs(slots[k]) = None /\ ~Filled(slots[k])))

\* the pool is the Not Allocated bookings in input order; a returned single
\* is the earliest booking of the pool with its headcount; the driver writes
\* the match to the slot in its order
PoolOrderCommon ==
    /\ Fresh =>
         unassigned = SelectSeq(bookings, LAMBDA b :
            \/ b.Allocation_Status = "Not Allocated"
            \/ \E k \in 1..Len(match) :
                  match[k].original_index = b.original_index)
    /\ (target > 0 /\ Len(match) = 1) =>
         \E i \in 1..Len(unassigned) :
            /\ match[1] = unassigned[i]
            /\ \A j \in 1..(i - 1) :
                  unassigned[j].No_of_Person # match[1].No_of_Person
    /\ (Fresh /\ match # None) =>
         /\ df2[idx].Booking_1_Id = <<match[1].Unique_Id>>
         /\ df2[idx].Booking_1_Persons = <<match[1].No_of_Person>>
         /\ df2[idx].Booking_2_Id =
              (IF Len(match) = 2 THEN <<match[2].Unique_Id>> ELSE None)
         /\ df2[idx].Booking_2_Persons =
              (IF Len(match) = 2 THEN <<match[2].No_of_Person>> ELSE None)

\* a returned pair is the first pair of pool positions i < j, in
\* lexicographic order, whose headcounts sum to what the pair sums to
FirstPairOfPool ==
    (target > 0 /\ Len(match) = 2) =>
        \E i, j \in 1..Len(unassigned) :
            /\ i < j
            /\ match = <<unassigned[i], unassigned[j]>>
            /\ \A p, q \in 1..Len(unassigned) :
                  (/\ p < q
                   /\ unassigned[p].No_of_Person + unassigned[q].No_of_Person
                        = SumPersons(match))
                    => (i < p \/ (i = p /\ j <= q))

(* C8 as amended: the tie-break by pool order, the pair being the first pair
   of pool positions for a pool of non-negative headcounts. *)
PoolOrderTieBreak ==
    /\ PoolOrderCommon
    /\ NonNegative(unassigned) => FirstPairOfPool

W_PoolOrderTieBreak ==
    /\ Fresh
    /\ NonNegative(unassigned)
    /\ Len(match) = 2
    /\ match[1] # unassigned[1]
    /\ \E p, q \in 1..Len(unassigned) :
          /\ p < q
          /\ unassigned[p].No_of_Person + unassigned[q].No_of_Person
                = SumPersons(match)
          /\ <<unassigned[p], unassigned[q]>> # match

(* C8 as stated: the pair is the first pair of pool positions for every pool. *)
PoolOrderTieBreakAnyPool ==
    /\ PoolOrderCommon
    /\ FirstPairOfPool

\* the search of find_combination over the whole pool
reference_search(tgt, available_bookings) ==
    search(available_bookings, targets_to_try(tgt), 1)

(* C9: the search returns what the same search over the pool without the
   target+1 filter returns. *)
PrefilterPure ==
    target > 0 => match = reference_search(target, unassigned)

W_PrefilterPure ==
    /\ target > 0
    /\ match # None
    /\ \E k \in 1..Len(unassigned) : unassigned[k].No_of_Person > target + 1
    /\ \E k \in 1..Len(unassigned) : unassigned[k].No_of_Person = target + 1

\* the bookings' side of the two-sided consistency, and what a slot with
\* matched references holds
ConsistentBookings ==
    LET slots == Slots
    IN  \A i \in 1..Len(bookings) :
        LET b == bookings[i]
            listing == {k \in 1..Len(slots) :
                \E n \in 1..2 : RefCell(slots[k], n) = <<b.Unique_Id>>}
        IN  /\ (b.Allocation_Status = "Allocated") <=> (Cardinality(listing) = 1)
            /\ (b.Allocation_Status = "Allocated") =>
                  \A k \in listing : b.Allotted_Dhaja_No = <<slots[k].New_Dhaja_No>>
            /\ (b.Allocation_Status = "Not Allocated") <=>
                  (b.Allotted_Dhaja_No = None)
            /\ b.Allocation_Status \in {"Allocated", "Not Allocated"}

ConsistentRefs ==
    LET slots == Slots
    IN  \A k \in 1..Len(slots) :
        Refs(slots[k]) # None =>
            /\ slots[k].Booking_1_Id # None
            /\ Len(RefPersons(slots[k])) = Len(Refs(slots[k]))
            /\ \A n \in 1..Len(Refs(slots[k])) :
                  RefPersons(slots[k])[n] = HeadcountOf(Refs(slots[k])[n])

(* C10 as amended: at every slot boundary the bookings' side holds, a slot
   with matched references has fill status Allocated and holds 1 or 2
   references with the bookings' headcounts, and a step changes a slot's
   fill status only when it writes the slot's references. *)
TwoSidedConsistency ==
    /\ [](/\ ConsistentBookings
          /\ ConsistentRefs
          /\ LET slots == Slots
             IN  \A k \in 1..Len(slots) :
                    Refs(slots[k]) # None => Filled(slots[k]))
    /\ [][LET before == Slots
              after == Slots'
          IN  \A k \in 1..Len(before) :
                 /\ k <= Len(after)
                 /\ after[k].BOOKING # before[k].BOOKING =>
                       (Refs(before[k]) = None /\ Refs(after[k]) # None)]_vars

W_TwoSidedConsistency ==
    /\ pc = "done"
    /\ \E k \in 1..Len(Slots) : Len(Refs(Slots[k])) = 2
    /\ \E k \in 1..Len(Slots) : Refs(Slots[k]) = None /\ Filled(Slots[k])
    /\ \E i \in 1..Len(bookings) : bookings[i].Allocation_Status = "Not Allocated"

\* the number of slots of Slots the row loop has gone through
Processed == Len(Flatten(processed_sheets)) + (IF pc = "rows" THEN idx ELSE 0)

(* C10 as stated: at every slot boundary the bookings' side holds, a slot
   with matched references holds 1 or 2 references with the bookings'
   headcounts, and the fill status of a slot the row loop has gone through is
   Allocated exactly when its matched references are non-empty. *)
TwoSidedIff ==
    /\ ConsistentBookings
    /\ ConsistentRefs
    /\ LET slots == Slots
       IN  \A k \in 1..Processed :
              slots[k].test # None =>
                  (Filled(slots[k]) <=> (Refs(slots[k]) # None))

====
